---------------------------- MODULE Spec2Model ----------------------------
(***************************************************************************)
(* CW Doppler simulation in customized aortic valve models                 *)
(* (AorticStenosisDopple.py): the Valve geometry, the Wave of one systole  *)
(* and the band Simulation, as a state machine over the objects the        *)
(* program builds and the calls it makes on them.                          *)
(*                                                                         *)
(* Numbers.  The program computes in floats; the model computes in exact   *)
(* rationals <<numerator, denominator>> kept in lowest terms with a        *)
(* positive denominator.  <<0, 0>> is numpy's nan.  Lengths are in mm,     *)
(* times in ms, velocities in cm/s, the valve area in 1/100 cm2.           *)
(***************************************************************************)
EXTENDS Integers, Sequences, FiniteSets

VARIABLES valves, sims, np_random, ret, pinned

vars == <<valves, sims, np_random, ret, pinned>>

---------------------------------------------------------------------------
(* Rational arithmetic                                                     *)

Abs(n) == IF n < 0 THEN -n ELSE n

RECURSIVE Gcd(_, _)
Gcd(a, b) == IF b = 0 THEN a ELSE Gcd(b, a % b)

nan == <<0, 0>>

isnan(a) == a[2] = 0

Norm(n, d) ==
    LET g == Gcd(Abs(n), Abs(d))
        s == IF d < 0 THEN -1 ELSE 1
    IN  <<s * (n \div g), s * (d \div g)>>

R(n) == <<n, 1>>

Frac(n, d) == Norm(n, d)

Neg(a) == <<-a[1], a[2]>>

Add(a, b) ==
    IF isnan(a) \/ isnan(b) THEN nan
    ELSE LET g == Gcd(a[2], b[2])
         IN  Norm(a[1] * (b[2] \div g) + b[1] * (a[2] \div g),
                  (a[2] \div g) * b[2])

Sub(a, b) == Add(a, Neg(b))

Mul(a, b) ==
    IF isnan(a) \/ isnan(b) THEN nan
    ELSE LET g1 == Gcd(Abs(a[1]), b[2])
             g2 == Gcd(Abs(b[1]), a[2])
             h1 == IF g1 = 0 THEN 1 ELSE g1
             h2 == IF g2 = 0 THEN 1 ELSE g2
         IN  Norm((a[1] \div h1) * (b[1] \div h2),
                  (a[2] \div h2) * (b[2] \div h1))

\* a / b.  A zero divisor gives nan, numpy's 0.0 / 0.0: the callers decide
\* first whether the program raises ZeroDivisionError there instead.
Div(a, b) ==
    IF isnan(a) \/ isnan(b) \/ b[1] = 0 THEN nan
    ELSE Mul(a, Norm(b[2], b[1]))

Sq(a) == Mul(a, a)

\* float comparisons: every comparison with nan is False
Lt(a, b) == ~isnan(a) /\ ~isnan(b) /\ a[1] * b[2] < b[1] * a[2]

Le(a, b) == ~isnan(a) /\ ~isnan(b) /\ a[1] * b[2] <= b[1] * a[2]

Gt(a, b) == Lt(b, a)

Ge(a, b) == Le(b, a)

RECURSIVE MaxOf(_)
MaxOf(s) ==
    IF Len(s) = 1 THEN s[1]
    ELSE LET m == MaxOf(Tail(s)) IN IF Gt(s[1], m) THEN s[1] ELSE m

\* F of the value of v: a Python name is bound to a value computed once.
Once(v, F(_)) == CHOOSE r \in {F(x) : x \in {v}} : TRUE

\* A numpy array or a list: the values themselves, one after the other.
np_array(f) == f \o <<>>

---------------------------------------------------------------------------
(* class Valve                                                             *)

puntos == 10

Pi1000 == 3142

\* The largest orifice radius (mm) the model's areas reach.
MaxOrif == 12

\* ava_to_rad: ((ava / pi) ** 0.5) * 10, the area in cm2, for ava >= 0.
\* With the area in 1/100 cm2 this is sqrt(ava100 / pi) mm; the model holds
\* the orifice radius to the nearest mm.
ava_to_rad(ava) ==
    CHOOSE r \in 0..MaxOrif :
        /\ (r = 0 \/ (2 * r - 1) * (2 * r - 1) * Pi1000 <= 4000 * ava)
        /\ 4000 * ava < (2 * r + 1) * (2 * r + 1) * Pi1000

\* What Valve.__init__ raises: a negative area makes (ava / pi) ** 0.5 a
\* complex number and float() of it raises TypeError; nothing else of the
\* arguments is looked at.
Valve_raises(a) == IF a.ava < 0 THEN "TypeError" ELSE ""

\* Valve.__init__: the object built from the arguments, v_max and alfa 0.0.
Valve_init(a) ==
    [l1 |-> a.l1,
     l2 |-> IF ~(a.l2 > 0) THEN a.l1 ELSE a.l2,
     length |-> a.length,
     rad |-> a.rad,
     orif |-> ava_to_rad(a.ava),
     thick |-> a.thick,
     shape |-> a.shape,
     wall_thick |-> a.wall_thick,
     trim_factor |-> a.trim_factor,
     y_range |-> a.length + a.l1,
     v_max |-> R(0),
     alfa |-> R(0)]

\* puntos_x[i] = rad - valv_xlen * (i / (puntos - 1)), i = 0 .. puntos-1
puntos_x(valve) ==
    [k \in 1..puntos |->
        Sub(R(valve.rad),
            Mul(R(valve.rad - valve.orif), Frac(k - 1, puntos - 1)))]

\* the 'cusp' branch of line()
cusp_y(valve) ==
    LET valv_xlen == R(valve.rad - valve.orif)
        factor == valve.trim_factor
        x_len == Div(valv_xlen, Sub(R(1), factor))
        x0 == Sub(R(valve.rad), x_len)
        y_len_ == Sq(x_len)
        x1 == Sub(Sub(R(valve.rad), valv_xlen), x0)
        y_len == Sub(y_len_, Sq(x1))
        px == puntos_x(valve)
    IN  [k \in 1..puntos |->
            Sub(Div(Mul(Sq(Sub(px[k], x0)), R(valve.length)), y_len),
                R(valve.length))]

\* the 'line' branch of line()
line_y(valve) ==
    LET valv_xlen == R(valve.rad - valve.orif)
        px == puntos_x(valve)
    IN  [k \in 1..puntos |->
            Neg(Mul(Sub(R(valve.rad), px[k]),
                    Div(R(valve.length), valv_xlen)))]

\* What Valve.line raises: the 'line' branch divides the float length by
\* the float valv_xlen (ZeroDivisionError when rad = orif); any shape tag
\* other than the two leaves puntos_y unassigned (UnboundLocalError).
line_raises(valve) ==
    IF valve.shape = "line"
    THEN (IF valve.rad = valve.orif THEN "ZeroDivisionError" ELSE "")
    ELSE IF valve.shape = "cusp" THEN ""
    ELSE "UnboundLocalError"

\* Valve.line, transposed: the sequence of the contour's <<x, y>> points
\* (when line_raises is "").
line(valve) ==
    LET px == puntos_x(valve)
        py == IF valve.shape = "line" THEN line_y(valve) ELSE cusp_y(valve)
    IN  np_array([k \in 1..puntos |-> <<px[k], py[k]>>])

\* radio()'s loop interpolating from the far end of the segment it finds
RECURSIVE radio_loop_far_end(_, _, _)
radio_loop_far_end(contour, y_, i) ==
    IF i > Len(contour) - 1 THEN R(0)
    ELSE LET x1 == contour[i][1]
             y1 == contour[i][2]
             x2 == contour[i + 1][1]
             y2 == contour[i + 1][2]
         IN  IF Lt(y_, y2) THEN radio_loop_far_end(contour, y_, i + 1)
             ELSE Add(x2, Mul(Div(Sub(y_, y1), Sub(y2, y1)), Sub(x1, x2)))

\* The loop of radio(): the first segment i with y_ >= y2 interpolates;
\* when no segment does, radio keeps its initial float() = 0.0.
RECURSIVE radio_loop(_, _, _)
radio_loop(contour, y_, i) ==
    IF i > Len(contour) - 1 THEN R(0)
    ELSE LET x1 == contour[i][1]
             y1 == contour[i][2]
             x2 == contour[i + 1][1]
             y2 == contour[i + 1][2]
         IN  IF Lt(y_, y2) THEN radio_loop(contour, y_, i + 1)
             ELSE IF Ge(y_, y2)
             THEN Add(x1, Mul(Div(Sub(y_, y1), Sub(y2, y1)), Sub(x2, x1)))
             ELSE radio_loop(contour, y_, i + 1)

\* What Valve.radio(y) raises: what line() does, on the one branch that
\* calls it.
radio_raises(valve, y) ==
    IF /\ ~Gt(y, R(0))
       /\ ~Ge(y, R(-valve.l1))
       /\ Ge(y, R(-(valve.l1 + valve.length)))
    THEN line_raises(valve)
    ELSE ""

\* Valve.radio(y) (when radio_raises is "")
radio(valve, y) ==
    LET l1 == R(valve.l1)
    IN  IF Gt(y, R(0)) THEN nan
        ELSE IF Ge(y, Neg(l1)) THEN R(valve.rad)
        ELSE IF Ge(y, R(-(valve.l1 + valve.length)))
        THEN Once(line(valve),
                  LAMBDA contour : radio_loop(contour, Sub(y, Neg(l1)), 1))
        ELSE IF Ge(y, R(-(valve.l1 + valve.length + 2))) THEN R(valve.orif)
        ELSE nan

---------------------------------------------------------------------------
(* class Wave                                                              *)

WaveTime == 600

q_eyec == 80

\* calc_t_acel
calc_t_acel(peak) ==
    IF Le(peak, R(700)) THEN Add(R(70), Mul(R(2), Sq(Div(peak, R(100)))))
    ELSE R(168)

\* calc_t_eyec with the breakpoint on the lower branch
calc_t_eyec_le(peak) ==
    IF Le(peak, R(700)) THEN Add(R(240), Mul(Frac(143, 1000), peak))
    ELSE R(340)

\* calc_t_eyec
calc_t_eyec(peak) ==
    IF Lt(peak, R(700)) THEN Add(R(240), Mul(Frac(143, 1000), peak))
    ELSE R(340)

\* Wave.__init__(peak, time = 600)
Wave_init(peak) ==
    [peak |-> peak,
     t_acel |-> calc_t_acel(peak),
     t_eyec |-> calc_t_eyec(peak),
     t_decel |-> Sub(calc_t_eyec(peak), calc_t_acel(peak)),
     time |-> WaveTime]

\* wavepoint with the curvatures of the two halves exchanged
wavepoint_swapped(w, ms) ==
    LET t == Sub(ms, Add(R(q_eyec), w.t_acel))
        k_1 == Div(w.peak, Sq(w.t_acel))
        k_2 == Div(w.peak, Sq(w.t_decel))
    IN  IF Lt(t, Neg(w.t_acel)) THEN nan
        ELSE IF Le(t, R(0)) THEN Sub(Mul(k_2, Sq(t)), w.peak)
        ELSE IF Lt(t, w.t_decel) THEN Sub(Mul(k_1, Sq(t)), w.peak)
        ELSE nan

\* Wave.wavepoint(ms, q_eyec = 80)
wavepoint(w, ms) ==
    LET t == Sub(ms, Add(R(q_eyec), w.t_acel))
        k_1 == Div(w.peak, Sq(w.t_acel))
        k_2 == Div(w.peak, Sq(w.t_decel))
    IN  IF Lt(t, Neg(w.t_acel)) THEN nan
        ELSE IF Le(t, R(0)) THEN Sub(Mul(k_1, Sq(t)), w.peak)
        ELSE IF Lt(t, w.t_decel) THEN Sub(Mul(k_2, Sq(t)), w.peak)
        ELSE nan

\* Wave.get_timeline(sep_ms): np.arange(0, time + 1, sep_ms)
get_timeline(w, sep_ms) ==
    [k \in 1..((w.time \div sep_ms) + 1) |-> R((k - 1) * sep_ms)]

\* Wave.get_outer_wave(sep_ms)
get_outer_wave(w, sep_ms) ==
    LET timeline == get_timeline(w, sep_ms)
    IN  [k \in 1..Len(timeline) |-> wavepoint(w, timeline[k])]

\* Wave.wave(veloc, sep_ms): get_outer_wave(sep_ms) * escala.  A velocity
\* sample is held as the factors of the product the program forms,
\* [outer, escala, noise]: the product is nan when a factor is.
wave(w, veloc, sep_ms) ==
    LET escala == Div(veloc, w.peak)
        outer == get_outer_wave(w, sep_ms)
    IN  [k \in 1..Len(outer) |-> [outer |-> outer[k], escala |-> escala]]

---------------------------------------------------------------------------
(* class Simulation                                                        *)

\* Python's None, for the seed argument
None == -1

\* band_grouping's loop with the remainder never used up
RECURSIVE grouping_loop_keeps_resto(_, _, _, _, _, _)
grouping_loop_keeps_resto(i, g, n, resto, limit, group_limits) ==
    IF i >= g THEN group_limits
    ELSE LET extra == IF resto > 0 THEN 1 ELSE 0
         IN  grouping_loop_keeps_resto(i + 1, g, n, resto, limit + n + extra,
                                       Append(group_limits, limit + n + extra))

\* The loop of band_grouping: i groups done.
RECURSIVE grouping_loop(_, _, _, _, _, _)
grouping_loop(i, g, n, resto, limit, group_limits) ==
    IF i >= g THEN group_limits
    ELSE LET extra == IF resto > 0 THEN 1 ELSE 0
         IN  grouping_loop(i + 1, g, n, resto - extra, limit + n + extra,
                           Append(group_limits, limit + n + extra))

\* Simulation.band_grouping
band_grouping(bands, band_groups) ==
    grouping_loop(0, band_groups, bands \div band_groups,
                  bands % band_groups, 0, <<>>)

\* Simulation.v_conteq(radio, valve, basal_velocity), radio # 0
v_conteq(radio_, valve, basal_velocity) ==
    Div(Mul(R(basal_velocity), Sq(R(valve.rad))), Sq(radio_))

\* The brightness the constructor gives a valve (sim_alfa is None)
valve_alfa(bands) == Frac(12, bands)

\* The loop "for valve in self.valves" of Simulation.__init__ over the
\* heap: valves vs[k..] get v_max and alfa, in order; it stops at the
\* first valve whose orifice radius is 0 (ZeroDivisionError in v_conteq).
RECURSIVE init_valves(_, _, _, _, _)
init_valves(heap, vs, k, basal_velocity, bands) ==
    IF k > Len(vs) THEN [heap |-> heap, raised |-> FALSE]
    ELSE IF heap[vs[k]].orif = 0 THEN [heap |-> heap, raised |-> TRUE]
    ELSE init_valves(
            [heap EXCEPT ![vs[k]].v_max =
                            v_conteq(R(heap[vs[k]].orif), heap[vs[k]],
                                     basal_velocity),
                         ![vs[k]].alfa = valve_alfa(bands)],
            vs, k + 1, basal_velocity, bands)

\* The list the valves argument names: omitted (<<>>), it is the one
\* default list [Valve()] built when the class is defined, heap cell 1.
valves_arg(a) == IF a.valves = <<>> THEN <<1>> ELSE a.valves

\* The Simulation object __init__ leaves, over the heap it leaves.
Simulation_init(a, heap, seed) ==
    [bands |-> a.bands,
     band_groups |-> a.band_groups,
     basal_velocity |-> a.basal_velocity,
     group_limits |-> band_grouping(a.bands, a.band_groups),
     valves |-> valves_arg(a),
     dispersion |-> a.dispersion,
     sep_ms |-> a.sep_ms,
     seed |-> seed,
     v_max_scale |->
        MaxOf([k \in 1..Len(valves_arg(a)) |-> heap[valves_arg(a)[k]].v_max])]


\* A generator that ignores its seed: the one stream of the module
RandomState_shared(seed) == [seed |-> None, pos |-> 0]

\* np.random.RandomState(seed): a generator of its own, at the start of the
\* stream its seed names.
RandomState(seed) == [seed |-> seed, pos |-> 0]

\* RandomState.normal(loc, scale, size): the next size deviates of the
\* generator's stream, each named by the stream and its place in it.
normal(gen, loc, scale, size) ==
    [k \in 1..size |->
        [seed |-> gen.seed, draw |-> gen.pos + k, loc |-> loc, scale |-> scale]]

\* x_points[~np.isnan(x_points)]: the filter of calc_band, on the timeline
filter_nan(x_points) == SelectSeq(x_points, LAMBDA x : ~isnan(x))

\* The first exception among those a and b name ("" is none)
first_raised(a, b) == IF a # "" THEN a ELSE b

\* The band calc_band returns once wave_, radio1 and radio2 are computed:
\* ZeroDivisionError in v_conteq when radio2 is 0.0.
band_points(sim, n, valve, wave_, y_1, y_2, radio1, radio2) ==
    LET vel == v_conteq(radio2, valve, sim.basal_velocity)
        x_points == filter_nan(get_timeline(wave_, sim.sep_ms))
        y_points == wave(wave_, vel, sim.sep_ms)
        aleatory_dispersion ==
            normal(RandomState(sim.seed + n), 1, sim.dispersion,
                   Len(get_timeline(wave_, sim.sep_ms)))
    IN  IF radio2 = R(0)
        THEN [raised |-> "ZeroDivisionError", contour |-> <<>>, points |-> <<>>]
        ELSE [raised |-> "",
              contour |-> <<<<radio1, y_1>>, <<radio2, y_2>>>>,
              points |->
                np_array([k \in 1..Len(x_points) |->
                    [ms |-> x_points[k],
                     outer |-> y_points[k].outer,
                     escala |-> y_points[k].escala,
                     noise |-> aleatory_dispersion[k]]])]

\* Simulation.calc_band(n, valve): [raised, contour, points].  points is
\* the sequence of the columns of np.array([x_points, y_points]).
calc_band(sim, n, valve) ==
    LET interval == Frac(valve.y_range, sim.bands)
        y_1 == Neg(Mul(R(n), interval))
        y_2 == Neg(Mul(R(n + 1), interval))
        raised == first_raised(radio_raises(valve, y_1),
                               radio_raises(valve, y_2))
    IN  IF raised # ""
        THEN [raised |-> raised, contour |-> <<>>, points |-> <<>>]
        ELSE Once(<<Wave_init(valve.v_max), y_1, y_2,
                    radio(valve, y_1), radio(valve, y_2)>>,
                  LAMBDA v : band_points(sim, n, valve,
                                         v[1], v[2], v[3], v[4], v[5]))

\* calc_group's range with every group starting at band 0
group_range_from_0(sim, group) ==
    IF group >= sim.band_groups THEN <<0, sim.bands>>
    ELSE <<0, sim.group_limits[group + 1]>>

\* The band range [band_0, band_n) calc_group(group) loops over.
group_range(sim, group) ==
    IF group >= sim.band_groups THEN <<0, sim.bands>>
    ELSE <<IF group = 0 THEN 0 ELSE sim.group_limits[group],
           sim.group_limits[group + 1]>>

\* The loop "for n in range(band_0, band_n)" of calc_group up to band n:
\* what the calls calc_band(band_0, valve) .. calc_band(n, valve) return,
\* each with the band it was handed; the loop ends with the first call
\* that raises.
RECURSIVE group_loop(_, _, _, _)
group_loop(sim, valve, band_0, n) ==
    IF n < band_0 THEN <<>>
    ELSE Once(group_loop(sim, valve, band_0, n - 1),
              LAMBDA done :
                IF done # <<>> /\ done[Len(done)].band.raised # "" THEN done
                ELSE Append(done, [n |-> n, band |-> calc_band(sim, n, valve)]))

\* polig_cont and points as the loop adds to them, after the first k bands
RECURSIVE group_cont(_, _)
group_cont(done, k) ==
    IF k = 0 THEN <<>>
    ELSE group_cont(done, k - 1) \o
         (IF k > 1 THEN Tail(done[k].band.contour) ELSE done[k].band.contour)

RECURSIVE group_points(_, _)
group_points(done, k) ==
    IF k = 0 THEN <<>>
    ELSE group_points(done, k - 1) \o done[k].band.points

\* The outline: the right contour, then its mirror image from the bottom up
polig(cont) ==
    cont \o [k \in 1..Len(cont) |->
                <<Neg(cont[Len(cont) + 1 - k][1]), cont[Len(cont) + 1 - k][2]>>]

\* What calc_group returns from what its loop has done
group_result(done) ==
    LET raised == IF done = <<>> THEN "" ELSE done[Len(done)].band.raised
    IN  [raised |-> raised,
         bands |-> [k \in 1..Len(done) |-> done[k].n],
         polig |-> IF raised # "" THEN <<>>
                   ELSE Once(group_cont(done, Len(done)), polig),
         points |-> IF raised # "" THEN <<>>
                    ELSE group_points(done, Len(done))]

\* Simulation.calc_group(group, valve): [raised, bands, polig, points];
\* bands lists the band indices handed to calc_band, in the order of the
\* calls.  v_conteq(valve.orif, ...) comes first and divides by orif ** 2.
calc_group(sim, group, valve) ==
    IF valve.orif = 0
    THEN [raised |-> "ZeroDivisionError", bands |-> <<>>, polig |-> <<>>,
          points |-> <<>>]
    ELSE
    Once(group_loop(sim, valve, group_range(sim, group)[1],
                    group_range(sim, group)[2] - 1),
         group_result)

---------------------------------------------------------------------------
(* Bounds of the model                                                     *)

\* Valve objects on the heap, the default list's Valve() included
MaxValves == 2

\* Simulation objects of Spec
MaxSims == 2

\* bands and band_groups of the Simulations
MaxBands == 4

MaxGroups == 3

\* The timeline is sampled every SepMs ms (the program sets sep_ms = 1)
SepMs == 100

\* np.random.randint(0, 9999, 1) draws from 0..MaxRandint
MaxRandint == 1

\* draws taken from the process-wide generator np.random
MaxDraws == 2

\* radio() is asked at the heights k / YSteps mm
YSteps == 2

\* Wave() is built for the peaks 0, 5, .. 5 * MaxPeakSteps (and three more)
MaxPeakSteps == 200

\* wavepoint() is asked at WaveSteps instants of each half of the ejection
WaveSteps == 4

---------------------------------------------------------------------------
(* The arguments the calls are made with                                   *)

\* Valve(): every argument at its default
DefaultValve ==
    [l1 |-> 10, l2 |-> 10, length |-> 5, rad |-> 10, ava |-> 80, thick |-> 1,
     shape |-> "cusp", wall_thick |-> 2, trim_factor |-> R(0)]

\* Valves with orif < rad: straight and cusp leaflets, untrimmed and trimmed
GoodValveArgs ==
    {[DefaultValve EXCEPT !.l1 = 5, !.length = len, !.ava = ava,
                          !.shape = sh, !.trim_factor = f] :
        len \in {2, 5}, ava \in {20, 80}, sh \in {"cusp", "line"},
        f \in {R(0), Frac(1, 2)}}

\* Arguments outside the ranges the prompts accept, or inside them with the
\* orifice as wide as the outflow tract (rad 5 mm, area 0.8 cm2)
BadValveArgs ==
    {[DefaultValve EXCEPT !.ava = -80],
     [DefaultValve EXCEPT !.ava = 0],
     [DefaultValve EXCEPT !.rad = 5],
     [DefaultValve EXCEPT !.rad = 5, !.shape = "line"],
     [DefaultValve EXCEPT !.rad = 4],
     [DefaultValve EXCEPT !.l2 = 0],
     [DefaultValve EXCEPT !.l2 = -3, !.l1 = 5],
     [DefaultValve EXCEPT !.l1 = 0],
     [DefaultValve EXCEPT !.length = 0],
     [DefaultValve EXCEPT !.shape = "disc"]}

ValveArgs == GoodValveArgs \cup BadValveArgs

\* Simulation(...) of Spec: valves <<>> is the argument left out, seed None
\* also
ObjSimArgs ==
    [bands : {MaxBands - 1, MaxBands},
     band_groups : {MaxGroups},
     basal_velocity : {125, 250},
     valves : {<<>>, <<2>>, <<1, 2>>},
     seed : {None, 7},
     dispersion : {Frac(1, 20)},
     sep_ms : {SepMs}]

\* Simulation(...) of SpecBands
BandSimArgs ==
    [bands : 1..MaxBands,
     band_groups : 1..MaxGroups,
     basal_velocity : {125, 250},
     valves : {<<>>, <<2>>, <<3>>},
     seed : {7},
     dispersion : {Frac(1, 20)},
     sep_ms : {SepMs}]

\* The heights radio() is asked at, for a valve: from 1 mm above the LVOT
\* base to 1 mm below the tolerance band under the tip
Heights(valve) ==
    {Frac(k, YSteps) :
        k \in (-YSteps * (valve.l1 + valve.length + 3))..YSteps}

Peaks == {R(5 * k) : k \in 0..MaxPeakSteps} \cup {R(450), R(699), R(701)}

\* The instants wavepoint() is asked at, for a wave: the start of the
\* timeline, the last ms before onset, the onset, the acceleration and the
\* deceleration in WaveSteps steps each, one step past the end of the
\* ejection, and the end of the timeline
Instants(w) ==
    {R(0), R(q_eyec - 1), R(q_eyec), R(w.time)}
    \cup {Add(R(q_eyec), Mul(w.t_acel, Frac(j, WaveSteps))) :
            j \in 0..WaveSteps}
    \cup {Add(Add(R(q_eyec), w.t_acel), Mul(w.t_decel, Frac(j, WaveSteps))) :
            j \in 0..(WaveSteps + 1)}

---------------------------------------------------------------------------
(* The program's state and its operations                                  *)

\* The heap after the module is loaded: the Valve() of the default list
\* valves=[Valve()] of Simulation.__init__ is cell 1.
Init ==
    /\ valves = <<Valve_init(DefaultValve)>>
    /\ sims = <<>>
    /\ np_random = 0
    /\ ret = [op |-> "import"]
    /\ pinned = <<>>

\* Valve(**a)
NewValve(a) ==
    /\ IF Valve_raises(a) # ""
       THEN /\ valves' = valves
            /\ ret' = [op |-> "Valve", args |-> a, raised |-> Valve_raises(a),
                       valve |-> 0]
       ELSE /\ valves' = Append(valves, Valve_init(a))
            /\ ret' = [op |-> "Valve", args |-> a, raised |-> "",
                       valve |-> Len(valves) + 1]
    /\ UNCHANGED <<sims, np_random, pinned>>

\* Simulation(**a), the seed argument given (seed) or drawn from np.random
NewSimulation(a, seed) ==
    /\ \A k \in 1..Len(a.valves) : a.valves[k] <= Len(valves)
    /\ IF a.seed # None
       THEN seed = a.seed /\ np_random' = np_random
       ELSE seed \in 0..MaxRandint /\ np_random < MaxDraws
            /\ np_random' = np_random + 1
    /\ LET r == init_valves(valves, valves_arg(a), 1, a.basal_velocity, a.bands)
       IN  /\ valves' = r.heap
           /\ IF r.raised
              THEN /\ sims' = sims
                   /\ ret' = [op |-> "Simulation", args |-> a,
                              raised |-> "ZeroDivisionError", sim |-> 0]
              ELSE /\ sims' = Append(sims, Simulation_init(a, r.heap, seed))
                   /\ ret' = [op |-> "Simulation", args |-> a, raised |-> "",
                              sim |-> Len(sims) + 1]
    /\ UNCHANGED pinned

\* valves[v].line()
Line(v) ==
    /\ ret' = [op |-> "line", valve |-> v, raised |-> line_raises(valves[v]),
               result |-> IF line_raises(valves[v]) # "" THEN <<>>
                          ELSE line(valves[v])]
    /\ UNCHANGED <<valves, sims, np_random, pinned>>

\* valves[v].radio(y)
Radio(v, y) ==
    /\ ret' = [op |-> "radio", valve |-> v, y |-> y,
               raised |-> radio_raises(valves[v], y),
               result |-> IF radio_raises(valves[v], y) # "" THEN nan
                          ELSE radio(valves[v], y)]
    /\ UNCHANGED <<valves, sims, np_random, pinned>>

\* Wave(peak)
NewWave(peak) ==
    /\ ret' = [op |-> "Wave", wave |-> Wave_init(peak)]
    /\ UNCHANGED <<valves, sims, np_random, pinned>>

\* w.wavepoint(ms), w the Wave last built, its peak a whole multiple of
\* 100 cm/s
Wavepoint(ms) ==
    /\ ret.op \in {"Wave", "wavepoint"}
    /\ ret.wave.peak[1] % 100 = 0
    /\ ret' = [op |-> "wavepoint", wave |-> ret.wave, ms |-> ms,
               result |-> wavepoint(ret.wave, ms)]
    /\ UNCHANGED <<valves, sims, np_random, pinned>>

\* sims[s].calc_band(n, valve), valve the k-th of the Simulation's valves
CalcBand(s, n, k) ==
    /\ ret' = [op |-> "calc_band", sim |-> s, n |-> n,
               valve |-> sims[s].valves[k],
               result |-> calc_band(sims[s], n, valves[sims[s].valves[k]])]
    /\ UNCHANGED <<valves, sims, np_random, pinned>>

\* The caller keeps the band it has just been returned, to compare what
\* later calls return with.
Pin ==
    /\ ret.op = "calc_band"
    /\ pinned = <<>>
    /\ pinned' = <<ret>>
    /\ ret' = [op |-> "keep"]
    /\ UNCHANGED <<valves, sims, np_random>>

\* sims[s].calc_group(group, valve), valve the k-th of its valves
CalcGroup(s, group, k) ==
    /\ ret' = [op |-> "calc_group", sim |-> s, group |-> group,
               valve |-> sims[s].valves[k],
               result |-> calc_group(sims[s], group, valves[sims[s].valves[k]])]
    /\ UNCHANGED <<valves, sims, np_random, pinned>>

---------------------------------------------------------------------------
(* Specifications                                                          *)

\* The objects: valves and Simulations built over them, in any order.
Next ==
    \/ /\ Len(valves) < MaxValves
       /\ \E a \in ValveArgs : NewValve(a)
    \/ /\ Len(sims) < MaxSims
       /\ \E a \in ObjSimArgs, seed \in {7} \cup 0..MaxRandint :
            NewSimulation(a, seed)

Spec == Init /\ [][Next]_vars

\* The geometry: one more valve, and the contour and the radius of the
\* valves asked for.
NextGeom ==
    \/ /\ Len(valves) = 1
       /\ \E a \in ValveArgs : NewValve(a)
    \/ \E v \in 1..Len(valves) : Line(v)
    \/ \E v \in 1..Len(valves) : \E y \in Heights(valves[v]) : Radio(v, y)

SpecGeom == Init /\ [][NextGeom]_vars

\* The waveform: Wave objects built for the peaks, and the velocity of the
\* Wave last built asked at its instants.
NextWave ==
    \/ \E peak \in Peaks : NewWave(peak)
    \/ /\ ret.op \in {"Wave", "wavepoint"}
       /\ \E ms \in Instants(ret.wave) : Wavepoint(ms)

SpecWave == Init /\ [][NextWave]_vars

\* The bands: the valves built (the default list's, a straight leaflet and
\* a trimmed cusp), one Simulation is built over one of them, then its
\* bands and groups are computed in any order, any number of times.
InitBands ==
    /\ valves = <<Valve_init(DefaultValve),
                  Valve_init([DefaultValve EXCEPT !.l1 = 5, !.shape = "line"]),
                  Valve_init([DefaultValve EXCEPT !.l1 = 5,
                                                  !.trim_factor = Frac(1, 2)])>>
    /\ sims = <<>>
    /\ np_random = 0
    /\ ret = [op |-> "import"]
    /\ pinned = <<>>

NextBands ==
    \/ /\ Len(sims) = 0
       /\ \E a \in BandSimArgs : NewSimulation(a, a.seed)
    \/ \E s \in 1..Len(sims) :
         \E n \in 0..(sims[s].bands - 1), k \in 1..Len(sims[s].valves) :
            CalcBand(s, n, k)
    \/ Pin
    \/ \E s \in 1..Len(sims) :
         \E g \in 0..(sims[s].band_groups + 1), k \in 1..Len(sims[s].valves) :
            CalcGroup(s, g, k)

SpecBands == InitBands /\ [][NextBands]_vars

---------------------------------------------------------------------------
(* Properties of Spec                                                      *)

\* C2: every valve of every Simulation built keeps the v_max and alfa that
\* Simulation's constructor gave it (basal_velocity * rad^2 / orif^2 and
\* 12 / bands), and the Simulation's v_max_scale is the largest v_max of
\* its valves, whatever was constructed since.
C2_ValvesFrozen ==
    \A s \in 1..Len(sims) :
        /\ \A k \in 1..Len(sims[s].valves) :
            LET valve == valves[sims[s].valves[k]]
            IN  /\ valve.v_max =
                      Div(R(sims[s].basal_velocity * valve.rad * valve.rad),
                          R(valve.orif * valve.orif))
                /\ valve.alfa = Frac(12, sims[s].bands)
        /\ \E k \in 1..Len(sims[s].valves) :
                sims[s].v_max_scale = valves[sims[s].valves[k]].v_max
        /\ \A k \in 1..Len(sims[s].valves) :
                Ge(sims[s].v_max_scale, valves[sims[s].valves[k]].v_max)

\* The arguments the specification calls a configuration error
ConfigurationError(a) ==
    \/ a.ava <= 0
    \/ ava_to_rad(a.ava) >= a.rad
    \/ a.l1 <= 0
    \/ a.l2 <= 0
    \/ a.length <= 0
    \/ a.shape \notin {"cusp", "line"}

\* C5: a Valve(...) call with a configuration error raises and leaves no
\* Valve; every Valve there is has orif < rad, l2 > 0 and a known shape.
C5_FailFast ==
    /\ (ret.op = "Valve" /\ ConfigurationError(ret.args)) =>
            (ret.raised # "" /\ ret.valve = 0)
    /\ \A v \in 1..Len(valves) :
            /\ valves[v].orif < valves[v].rad
            /\ valves[v].l2 > 0
            /\ valves[v].l1 > 0
            /\ valves[v].length > 0
            /\ valves[v].shape \in {"cusp", "line"}

---------------------------------------------------------------------------
(* Properties of SpecGeom                                                  *)

\* The valves the geometry is specified for: a known shape, the orifice
\* narrower than the outflow tract, the trim factor in [0, 1)
WellFormed(valve) ==
    /\ valve.shape \in {"cusp", "line"}
    /\ 0 < valve.orif /\ valve.orif < valve.rad
    /\ valve.l1 > 0 /\ valve.length > 0
    /\ Ge(valve.trim_factor, R(0)) /\ Lt(valve.trim_factor, R(1))

\* C4: radio(y) of a well-formed valve is undefined exactly above the LVOT
\* base and below the tolerance band; it is rad on the LVOT, orif on the
\* tolerance band, between orif and rad on the leaflet, and never the 0.0
\* it starts from.
C4_RadioNeverDefault ==
    (ret.op = "radio" /\ WellFormed(valves[ret.valve])) =>
        LET valve == valves[ret.valve]
            tip == R(-(valve.l1 + valve.length))
            below == R(-(valve.l1 + valve.length + 2))
        IN  /\ ret.raised = ""
            /\ isnan(ret.result) <=> (Gt(ret.y, R(0)) \/ Lt(ret.y, below))
            /\ (Le(ret.y, R(0)) /\ Ge(ret.y, R(-valve.l1))) =>
                    ret.result = R(valve.rad)
            /\ (Lt(ret.y, tip) /\ Ge(ret.y, below)) =>
                    ret.result = R(valve.orif)
            /\ (Lt(ret.y, R(-valve.l1)) /\ Ge(ret.y, tip)) =>
                    /\ Ge(ret.result, R(valve.orif))
                    /\ Le(ret.result, R(valve.rad))
            /\ ret.result # R(0)

\* C8: on a well-formed valve, radio(y) for y between the LVOT base and
\* the leaflet tip is at least radio at every lower height down to the
\* tip: the radius does not grow as y decreases.
C8_RadioMonotone ==
    (/\ ret.op = "radio"
     /\ WellFormed(valves[ret.valve])
     /\ Le(ret.y, R(0))
     /\ Ge(ret.y, R(-(valves[ret.valve].l1 + valves[ret.valve].length)))) =>
        /\ ret.raised = ""
        /\ \A yb \in Heights(valves[ret.valve]) :
            (/\ Le(yb, ret.y)
             /\ Ge(yb, R(-(valves[ret.valve].l1
                            + valves[ret.valve].length)))) =>
                Ge(ret.result, radio(valves[ret.valve], yb))

\* radio was asked on the leaflet of a trimmed cusp, above the tip, and
\* returned a radius strictly between orif and rad
C8_Witness ==
    /\ ret.op = "radio"
    /\ WellFormed(valves[ret.valve])
    /\ valves[ret.valve].shape = "cusp"
    /\ Gt(valves[ret.valve].trim_factor, R(0))
    /\ Lt(ret.y, R(-valves[ret.valve].l1))
    /\ Gt(ret.y, R(-(valves[ret.valve].l1 + valves[ret.valve].length)))
    /\ Gt(ret.result, R(valves[ret.valve].orif))
    /\ Lt(ret.result, R(valves[ret.valve].rad))

\* C10: line() of a well-formed valve returns 10 points, their x evenly
\* spaced from rad down to orif, the first with y = 0 and the last with
\* y = -length.
C10_LineEndpoints ==
    (ret.op = "line" /\ WellFormed(valves[ret.valve])) =>
        LET valve == valves[ret.valve]
        IN  /\ ret.raised = ""
            /\ Len(ret.result) = 10
            /\ ret.result[1][1] = R(valve.rad)
            /\ ret.result[10][1] = R(valve.orif)
            /\ \A k \in 1..9 :
                    Sub(ret.result[k][1], ret.result[k + 1][1]) =
                        Frac(valve.rad - valve.orif, 9)
            /\ ret.result[1][2] = R(0)
            /\ ret.result[10][2] = R(-valve.length)

---------------------------------------------------------------------------
(* Properties of SpecWave                                                  *)

---------------------------------------------------------------------------
(* Properties of SpecBands                                                 *)

\* The number of bands group k (1-based) of a Simulation holds
group_count(sim, k) ==
    sim.group_limits[k] - (IF k = 1 THEN 0 ELSE sim.group_limits[k - 1])

\* The band indices from a up to, excluding, b, ascending
band_indices(a, b) == [k \in 1..(b - a) |-> a + k - 1]

\* C1: for bands >= 1 and 1 <= band_groups <= bands, band_grouping returns
\* band_groups cumulative cutoffs whose last is bands; the groups' band
\* counts differ by at most one, the first (bands mod band_groups) groups
\* holding one band more than the others.
C1_BandGrouping ==
    \A s \in 1..Len(sims) :
        LET sim == sims[s]
        IN  (sim.bands >= 1 /\ 1 <= sim.band_groups
                /\ sim.band_groups <= sim.bands) =>
            /\ Len(sim.group_limits) = sim.band_groups
            /\ sim.group_limits[sim.band_groups] = sim.bands
            /\ \A j, k \in 1..sim.band_groups :
                    Abs(group_count(sim, j) - group_count(sim, k)) <= 1
            /\ \A k \in 1..sim.band_groups :
                    group_count(sim, k) =
                        (sim.bands \div sim.band_groups)
                        + (IF k <= sim.bands % sim.band_groups THEN 1 ELSE 0)

\* A Simulation whose bands do not divide evenly among several groups
C1_Witness ==
    \E s \in 1..Len(sims) :
        /\ sims[s].band_groups > 1
        /\ sims[s].band_groups < sims[s].bands
        /\ sims[s].bands % sims[s].band_groups # 0
        /\ sims[s].group_limits[1] > sims[s].bands \div sims[s].band_groups

C6_NoUndefinedSample ==
    (ret.op \in {"calc_band", "calc_group"} /\ ret.result.raised = "") =>
        \A k \in 1..Len(ret.result.points) :
            /\ ~isnan(ret.result.points[k].outer)
            /\ ~isnan(ret.result.points[k].escala)

RECURSIVE LeqFrac(_, _, _, _)
LeqFrac(n1, d1, n2, d2) ==
    IF n1 \div d1 # n2 \div d2 THEN n1 \div d1 < n2 \div d2
    ELSE IF n1 % d1 = 0 THEN TRUE
    ELSE IF n2 % d2 = 0 THEN FALSE
    ELSE LeqFrac(d2, n2 % d2, d1, n1 % d1)

\* a <= b for defined non-negative rationals
AtMost(a, b) ==
    ~isnan(a) /\ ~isnan(b) /\ LeqFrac(a[1], a[2], b[1], b[2])

\* The velocity of the band a calc_band call returned: the scale factor
\* of its samples times the peak of the wave, valve.v_max
band_velocity(call) ==
    Mul(call.result.points[1].escala, valves[call.valve].v_max)

\* C12: for a valve with orif < rad, calc_band(n, valve) finds radio(y1)
\* and radio(y2) defined; the band's velocity is
\* basal_velocity * (rad / radio2)^2, within [basal_velocity, valve.v_max],
\* basal_velocity when radio2 is rad, valve.v_max when radio2 is orif and
\* for the deepest band, and at least that of any band above it; the
\* scale factor velocity / v_max is at most 1.
C12_BandVelocity ==
    (/\ ret.op = "calc_band"
     /\ WellFormed(valves[ret.valve])) =>
        LET sim == sims[ret.sim]
            valve == valves[ret.valve]
            radio1 == ret.result.contour[1][1]
            radio2 == ret.result.contour[2][1]
            vel == band_velocity(ret)
        IN  /\ ret.result.raised = ""
            /\ ~isnan(radio1) /\ ~isnan(radio2)
            /\ vel = Mul(R(sim.basal_velocity),
                         Sq(Div(R(valve.rad), radio2)))
            /\ AtMost(R(sim.basal_velocity), vel) /\ AtMost(vel, valve.v_max)
            /\ radio2 = R(valve.rad) => vel = R(sim.basal_velocity)
            /\ radio2 = R(valve.orif) => vel = valve.v_max
            /\ ret.n = sim.bands - 1 => vel = valve.v_max
            /\ \A k \in 1..Len(ret.result.points) :
                    AtMost(ret.result.points[k].escala, R(1))
            /\ (/\ pinned # <<>>
                /\ pinned[1].sim = ret.sim /\ pinned[1].valve = ret.valve
                /\ pinned[1].result.raised = ""
                /\ pinned[1].n <= ret.n) =>
                    AtMost(band_velocity(pinned[1]), vel)

=============================================================================
